---- MODULE Spec2Model ----
(***************************************************************************)
(* etcpak command line driver (src/Application.cpp, main): option parsing, *)
(* mode selection (benchmark / view / encode) and the parallel encode      *)
(* pipeline built on DataProvider, BlockData and TaskDispatch.             *)
(*                                                                         *)
(* DataProvider, BlockData, Bitmap and TaskDispatch are declared in        *)
(* headers that main includes; their behaviour is modelled from the        *)
(* natural-language specification (sections 3 to 5) and from the way main  *)
(* uses them.  Quantities are counted in 4x4 blocks: one block is          *)
(* BytesPerBlock(type) bytes of a block buffer.                            *)
(***************************************************************************)
EXTENDS Integers, Sequences, FiniteSets, TLC

\* ------------------------------------------------------------------ bounds
\* worker pool sizes 0..MaxCpus are explored
MaxCpus == 2
\* source images are 4*c pixels wide, c in 1..MaxBlockCols
MaxBlockCols == 2
\* source images are 4*r pixels high, r in 1..MaxBlockRows
MaxBlockRows == 3
\* mip chains of at most MaxLevels levels are explored
MaxLevels == 3

\* --------------------------------------------------------------- constants
\* constexpr int NumTasks = 9 (benchmark repetitions)
NumTasks == 9
\* block rows handed out per partition by the Partitioner
PartLines == 2

Max(a, b) == IF a > b THEN a ELSE b
Min(a, b) == IF a < b THEN a ELSE b

\* ------------------------------------------------------------ command line
\* the options getopt_long recognises (optstring "vo:a:sbmd" and longopts)
OptionNames == {"v", "o", "a", "s", "b", "m", "d", "etc2", "rgba", "dxt1"}

VARIABLES
    argv,       \* the command line: [opts, unknown, noarg, npos]
    cpus,       \* unsigned int cpus = System::CPUCores()
    pc,         \* position of the controlling thread in main
    ret,        \* exit status of main; -1 while it runs
    viewMode, stats, benchmark, mipmap, dither, etc2, rgba, dxt1, alpha,
    dp,         \* DataProvider dp (encode) / Bitmap bmp (benchmark)
    num,        \* auto num = dp.NumberOfParts()
    type,       \* BlockData::Type type
    bd, bda,    \* BlockDataPtr bd, bda
    i,          \* loop counter of the running for loop
    part,       \* auto part = dp.NextPart()
    tasks,      \* TaskDispatch: the units queued so far, with their state
    running,    \* TaskDispatch: whether the pool exists (constructed, not destroyed)
    syncs,      \* number of TaskDispatch::Sync() calls made
    calls,      \* the encoding calls (Process / ProcessRGBA) started so far
    decodes,    \* number of BlockData::Decode() calls made
    written,    \* files written: subset of {"output", "alpha", "png"}
    fault       \* a Process call wrote outside its buffer

flags == <<viewMode, stats, benchmark, mipmap, dither, etc2, rgba, dxt1, alpha>>
input == <<argv, cpus>>
pipe  == <<dp, num, type, bd, bda, i, part, tasks, running, syncs, calls, decodes, written, fault>>
vars  == <<input, pc, ret, flags, pipe>>

NoBuffer == [type |-> "none", size |-> <<0, 0>>, mipmap |-> FALSE, file |-> "none", data |-> <<>>]
NoData == [size |-> <<0, 0>>, alphaCh |-> FALSE, mipmap |-> FALSE, next |-> 0, loaded |-> FALSE]

\* ------------------------------------------------------------ option parsing
\* argc: the program name, one token per option (-a and -o take their file
\* name as a second token), the unknown option if any, the option left without its
\* argument if any (a trailing -a or -o), and the positional arguments
Argc(a) ==
    1 + Cardinality(a.opts) + (IF "a" \in a.opts THEN 1 ELSE 0)
      + (IF "o" \in a.opts THEN 1 ELSE 0)
      + (IF a.unknown THEN 1 ELSE 0) + (IF a.noarg THEN 1 ELSE 0) + a.npos

\* only an unknown option makes getopt_long return '?'
GetoptError_UnknownOnly(a) == a.unknown

\* getopt_long returns '?': an option it does not know, or an option of the
\* optstring "vo:a:sbmd" whose argument is missing
GetoptError(a) == a.unknown \/ a.noarg

\* the -d flag passed on unchanged
EffectiveDither_Kept(e, d) == d

\* if( etc2 && dither ) dither = false;
EffectiveDither(e, d) == IF e /\ d THEN FALSE ELSE d

\* argc - optind < 1 (benchmark) or < 2 (otherwise)
TooFewPositional(b, npos) == IF b THEN npos < 1 ELSE npos < 2

\* the switch of the getopt_long loop, applied to every option given
ParseArgs ==
    /\ pc = "start"
    /\ IF Argc(argv) < 3 \/ GetoptError(argv)
       THEN /\ ret' = 1
            /\ pc' = "done"
            /\ UNCHANGED flags
       ELSE /\ viewMode' = ("v" \in argv.opts)
            /\ alpha' = ("a" \in argv.opts)
            /\ stats' = ("s" \in argv.opts)
            /\ benchmark' = ("b" \in argv.opts)
            /\ mipmap' = ("m" \in argv.opts)
            /\ etc2' = ("etc2" \in argv.opts \/ "rgba" \in argv.opts)
            /\ rgba' = ("rgba" \in argv.opts)
            /\ dxt1' = ("dxt1" \in argv.opts)
            /\ dither' = EffectiveDither(etc2', "d" \in argv.opts)
            /\ IF TooFewPositional(benchmark', argv.npos)
               THEN ret' = 1 /\ pc' = "done"
               ELSE ret' = ret /\ pc' = "mode"
    /\ UNCHANGED <<input, pipe>>

\* -v taking precedence over -b
Mode_ViewFirst(b, v) ==
    IF v THEN "view"
    ELSE IF b THEN "bench_encode"
    ELSE "encode"

\* the branch main takes: if( benchmark ) { if( viewMode ) ... else ... }
\* else if( viewMode ) ... else ...
Mode(b, v) ==
    IF b THEN (IF v THEN "bench_decode" ELSE "bench_encode")
    ELSE IF v THEN "view"
    ELSE "encode"

\* ------------------------------------------------------------- Partitioner
\* the mip chain of a w x h image: every level half the previous one, down to 1x1
RECURSIVE MipChain(_, _)
MipChain(w, h) ==
    IF w = 1 /\ h = 1 THEN << <<1, 1>> >>
    ELSE << <<w, h>> >> \o MipChain(Max(1, w \div 2), Max(1, h \div 2))

Levels(size, mip) == IF mip THEN MipChain(size[1], size[2]) ELSE << size >>

\* a level smaller than one block is padded to one block
LevelWidth(l) == Max(4, l[1])
LevelBlockRows(l) == Max(1, l[2] \div 4)

\* the partitions of one level: chunks of at most PartLines block rows, each
\* with the running total of blocks already assigned as its offset
RECURSIVE ChunkLevel(_, _, _)
ChunkLevel(width, rows, off) ==
    IF rows = 0 THEN << >>
    ELSE LET n == Min(PartLines, rows)
         IN  << [src |-> off, width |-> width, lines |-> n, offset |-> off] >>
             \o ChunkLevel(width, rows - n, off + (width \div 4) * n)

RECURSIVE PartsFrom(_, _)
PartsFrom(levels, off) ==
    IF levels = << >> THEN << >>
    ELSE LET l == Head(levels)
             w == LevelWidth(l)
             r == LevelBlockRows(l)
         IN  ChunkLevel(w, r, off) \o PartsFrom(Tail(levels), off + (w \div 4) * r)

AllParts(size, mip) == PartsFrom(Levels(size, mip), 0)

\* DataProvider::NumberOfParts()
NumberOfParts(d) == Len(AllParts(d.size, d.mipmap))

NoPart == [src |-> 0, width |-> 0, lines |-> 0, offset |-> 0]

\* DataProvider::NextPart(): the next partition of the lazy sequence; nothing
\* is left to hand out once NumberOfParts() partitions were returned
NextPart(d) ==
    IF d.next < NumberOfParts(d) THEN AllParts(d.size, d.mipmap)[d.next + 1] ELSE NoPart

\* the pixel rows a partition spans: lines counts rows of 4x4 blocks
PixelRows(p) == 4 * p.lines

\* -------------------------------------------------------------- BlockData
Types == {"Etc1", "Etc2_RGB", "Etc2_RGBA", "Dxt1"}

BytesPerBlock(t) == IF t = "Etc2_RGBA" THEN 16 ELSE 8

RECURSIVE SumBlocks(_)
SumBlocks(levels) ==
    IF levels = << >> THEN 0
    ELSE (Max(4, Head(levels)[1]) * Max(4, Head(levels)[2])) \div 16
         + SumBlocks(Tail(levels))

\* number of blocks of a buffer: sum over the mip levels of level_pixels / 16
BufferBlocks(size, mip) == SumBlocks(Levels(size, mip))

\* a block nobody wrote yet
EmptyBlock == [w |-> 0, src |-> -1, ch |-> "none", dither |-> FALSE]

\* BlockData( fn, size, mipmap, type ): a fresh buffer bound to an output file
NewBuffer(file, size, mip, t) ==
    [type |-> t, size |-> size, mipmap |-> mip, file |-> file,
     data |-> [j \in 1..BufferBlocks(size, mip) |-> EmptyBlock]]

\* BlockData( fn ): a buffer read from an encoded file, every block present
LoadedBuffer(size, mip, t) ==
    [type |-> t, size |-> size, mipmap |-> mip, file |-> "none",
     data |-> [j \in 1..BufferBlocks(size, mip) |->
                  [w |-> 1, src |-> j - 1, ch |-> "file", dither |-> FALSE]]]

\* Process / ProcessRGBA: encode `count` blocks read from source block `src` on
\* into the blocks offset .. offset + count - 1 of the buffer
WriteBlocks(data, src, count, offset, ch, d) ==
    [j \in 1..Len(data) |->
        IF j - 1 >= offset /\ j - 1 < offset + count
        THEN [w |-> data[j].w + 1, src |-> src + (j - 1 - offset), ch |-> ch, dither |-> d]
        ELSE data[j]]

\* the call writes past the end of the buffer
Overruns(data, count, offset) == count > 0 /\ offset + count > Len(data)

\* --------------------------------------------------------------- the inputs
\* sizes of the source images explored: multiples of 4; a mip chain is built
\* for power-of-two sizes whose chain has at most MaxLevels levels
IsPow2(n) == n \in {1, 2, 4, 8, 16, 32, 64}

ImageSizes(mip) ==
    { s \in { <<4 * c, 4 * r>> : c \in 1..MaxBlockCols, r \in 1..MaxBlockRows } :
        mip => /\ IsPow2(s[1]) /\ IsPow2(s[2])
               /\ Len(MipChain(s[1], s[2])) <= MaxLevels }

\* ------------------------------------------------------ encode: configuring
\* --rgba taken alone, without looking at the source's alpha channel
SelectType_RgbaOnly(e, r, d, srcAlpha) ==
    IF e THEN (IF r THEN "Etc2_RGBA" ELSE "Etc2_RGB")
    ELSE IF d THEN "Dxt1"
    ELSE "Etc1"

\* the if/else chain that resolves BlockData::Type from the flags and dp.Alpha()
SelectType(e, r, d, srcAlpha) ==
    IF e THEN (IF r /\ srcAlpha THEN "Etc2_RGBA" ELSE "Etc2_RGB")
    ELSE IF d THEN "Dxt1"
    ELSE "Etc1"

\* the alpha buffer allocated without looking at rgba
WantAlphaBuffer_NoRgba(a, srcAlpha, r) == a /\ srcAlpha

\* if( alpha && dp.Alpha() && !rgba ): a second buffer for the alpha channel
WantAlphaBuffer(a, srcAlpha, r) == a /\ srcAlpha /\ ~r

\* the first unit queued before the block buffers are created
Configure_QueueFirst(p) ==
    CASE p = "mode" -> "select"
      [] OTHER -> "loop"

\* the statements of the encode branch up to the loop, in the order main runs
\* them: load the input, resolve the format, create the buffers, dispatch
Configure(p) ==
    CASE p = "mode" -> "select"
      [] p = "select" -> "create"
      [] OTHER -> "loop"

\* DataProvider dp( input, mipmap, !dxt1 ); auto num = dp.NumberOfParts();
LoadInput ==
    /\ pc = "mode" /\ Mode(benchmark, viewMode) = "encode"
    /\ \E size \in ImageSizes(mipmap), srcAlpha \in BOOLEAN :
          dp' = [size |-> size, alphaCh |-> srcAlpha, mipmap |-> mipmap,
                 next |-> 0, loaded |-> TRUE]
    /\ num' = NumberOfParts(dp')
    /\ pc' = Configure("mode")
    /\ UNCHANGED <<input, ret, flags, type, bd, bda, i, part, tasks, running,
                   syncs, calls, decodes, written, fault>>

SelectFormat ==
    /\ pc = "select"
    /\ type' = SelectType(etc2, rgba, dxt1, dp.alphaCh)
    /\ pc' = Configure("select")
    /\ UNCHANGED <<input, ret, flags, dp, num, bd, bda, i, part, tasks, running,
                   syncs, calls, decodes, written, fault>>

\* TaskDispatch taskDispatch( cpus ); bd = make_shared<BlockData>( output, ... );
\* bda = make_shared<BlockData>( alpha, ... ) when wanted; int i = 0
CreateBuffers ==
    /\ pc = "create"
    /\ running' = TRUE
    /\ bd' = NewBuffer("output", dp.size, mipmap, type)
    /\ bda' = IF WantAlphaBuffer(alpha, dp.alphaCh, rgba)
              THEN NewBuffer("alpha", dp.size, mipmap, type)
              ELSE NoBuffer
    /\ written' = written \cup {bd'.file} \cup (IF bda' = NoBuffer THEN {} ELSE {bda'.file})
    /\ i' = 0
    /\ pc' = Configure("create")
    /\ UNCHANGED <<input, ret, flags, dp, num, type, part, tasks, syncs, calls,
                   decodes, fault>>

\* the input file of the mode cannot be read: the loader fails and the
\* process is aborted before main goes on
InputFails ==
    /\ pc = "mode"
    /\ pc' = "aborted"
    /\ UNCHANGED <<input, ret, flags, pipe>>

\* an output file cannot be created: the color buffer's, or the alpha
\* buffer's after the color buffer's file was created; the process is aborted
\* and its buffers are gone
OutputFails ==
    /\ pc = "create"
    /\ \E colorCreated \in {FALSE, WantAlphaBuffer(alpha, dp.alphaCh, rgba)} :
          written' = IF colorCreated THEN written \cup {"output"} ELSE written
    /\ pc' = "aborted"
    /\ UNCHANGED <<input, ret, flags, dp, num, type, bd, bda, i, part, tasks, running,
                   syncs, calls, decodes, fault>>

\* ----------------------------------------------------- encode: dispatching
\* the loop running one iteration too many
LoopContinues_Long(k, n) == k <= n

\* the loop stopping one iteration early
LoopContinues_Short(k, n) == k + 1 < n

\* for( int i=0; i<num; i++ )
LoopContinues(k, n) == k < n

\* the division by the block width left out
BlockCount_NoDiv(p) == p.width * p.lines

\* lines taken as a count of pixel rows
BlockCount_PixelRows(p) == (p.width \div 4) * (p.lines \div 4)

\* part.width / 4 * part.lines
BlockCount(p) == (p.width \div 4) * p.lines

\* the closure queued for the color buffer: [part, i, &bd, &dither]
ColorUnit(p, k, t) ==
    IF t = "Etc2_RGBA"
    THEN [target |-> "bd", call |-> "ProcessRGBA", part |-> p, channel |-> "RGBA",
          byRef |-> FALSE, i |-> k, st |-> "pending", d |-> FALSE]
    ELSE [target |-> "bd", call |-> "Process", part |-> p, channel |-> "RGB",
          byRef |-> TRUE, i |-> k, st |-> "pending", d |-> FALSE]

\* the alpha closure passing the dither flag instead of false
AlphaUnit_Dithered(p, k) ==
    [target |-> "bda", call |-> "Process", part |-> p, channel |-> "Alpha",
     byRef |-> TRUE, i |-> k, st |-> "pending", d |-> FALSE]

\* the alpha closure capturing &bd instead of &bda
AlphaUnit_WrongBuffer(p, k) ==
    [target |-> "bd", call |-> "Process", part |-> p, channel |-> "Alpha",
     byRef |-> FALSE, i |-> k, st |-> "pending", d |-> FALSE]

\* the closure queued for the alpha buffer: [part, i, &bda], dither = false
AlphaUnit(p, k) ==
    [target |-> "bda", call |-> "Process", part |-> p, channel |-> "Alpha",
     byRef |-> FALSE, i |-> k, st |-> "pending", d |-> FALSE]

\* the else branch queues a second unit if( bda )
QueuesAlpha(t, b) == t # "Etc2_RGBA" /\ b # NoBuffer

\* Sync() left out
After_NoSync(p) ==
    CASE p = "loop" -> "stats"
      [] p = "stats" -> "exit"
      [] OTHER -> "done"

\* the statistics taken before Sync()
After_StatsFirst(p) ==
    CASE p = "loop" -> "stats"
      [] p = "stats" -> "sync"
      [] p = "sync" -> "exit"
      [] OTHER -> "done"

\* the statement main runs after the one at position p
After(p) ==
    CASE p = "loop" -> "sync"
      [] p = "sync" -> "stats"
      [] p = "stats" -> "exit"
      [] OTHER -> "done"

\* entering position "sync" is the call of TaskDispatch::Sync()
SyncsAt(p) == IF p = "sync" THEN syncs + 1 ELSE syncs

\* auto part = dp.NextPart(); TaskDispatch::Queue( color unit )
QueueColor ==
    /\ pc = "loop" /\ LoopContinues(i, num)
    /\ part' = NextPart(dp)
    /\ dp' = [dp EXCEPT !.next = @ + 1]
    /\ tasks' = Append(tasks, ColorUnit(part', i, type))
    /\ IF QueuesAlpha(type, bda)
       THEN pc' = "alpha" /\ i' = i
       ELSE pc' = "loop" /\ i' = i + 1
    /\ UNCHANGED <<input, ret, flags, num, type, bd, bda, running, syncs, calls,
                   decodes, written, fault>>

\* TaskDispatch::Queue( alpha unit ); i++
QueueAlpha ==
    /\ pc = "alpha"
    /\ tasks' = Append(tasks, AlphaUnit(part, i))
    /\ i' = i + 1
    /\ pc' = "loop"
    /\ UNCHANGED <<input, ret, flags, dp, num, type, bd, bda, part, running, syncs,
                   calls, decodes, written, fault>>

\* the loop ends and main goes on to the statement after it
LoopExit ==
    /\ pc = "loop" /\ ~LoopContinues(i, num)
    /\ pc' = After("loop")
    /\ syncs' = SyncsAt(pc')
    /\ UNCHANGED <<input, ret, flags, dp, num, type, bd, bda, i, part, tasks, running,
                   calls, decodes, written, fault>>

\* ----------------------------------------------------------- TaskDispatch
\* worker threads of a pool of n: a pool of 0 or 1 runs the units
\* synchronously on the thread that calls Sync()
WorkerThreads(n) == IF n <= 1 THEN 0 ELSE n

RunningUnits == { k \in 1..Len(tasks) : tasks[k].st = "running" }
PendingUnits == { k \in 1..Len(tasks) : tasks[k].st = "pending" }

\* Sync() returns when every unit queued before it has completed
AllDone == \A k \in 1..Len(tasks) : tasks[k].st = "done"

\* the buffer a closure reaches through its captured reference
Target(u) == IF u.target = "bd" THEN bd ELSE bda

\* the unit as it starts: it reads the dither flag it captured by reference
Started(u) == [u EXCEPT !.st = "running", !.d = IF u.byRef THEN dither ELSE FALSE]

\* the Process / ProcessRGBA call a started unit makes
CallOf(mode, u, t) ==
    [mode |-> mode, type |-> t, call |-> u.call, channel |-> u.channel, dither |-> u.d]

\* the buffers after unit u has written its blocks:
\* Process( part.src, part.width / 4 * part.lines, part.offset, part.width, ... )
WriteUnit(u) ==
    LET b == Target(u)
        nb == [b EXCEPT !.data = WriteBlocks(b.data, u.part.src, BlockCount(u.part),
                                             u.part.offset, u.channel, u.d)]
    IN  /\ bd' = IF u.target = "bd" THEN nb ELSE bd
        /\ bda' = IF u.target = "bda" THEN nb ELSE bda
        /\ fault' = (fault \/ Overruns(b.data, BlockCount(u.part), u.part.offset))

\* a worker thread takes a queued unit and starts running it
WorkerStart(k) ==
    /\ running /\ k \in PendingUnits
    /\ Cardinality(RunningUnits) < WorkerThreads(cpus)
    /\ tasks' = [tasks EXCEPT ![k] = Started(tasks[k])]
    /\ calls' = calls \cup {CallOf("encode", tasks'[k], Target(tasks[k]).type)}
    /\ UNCHANGED <<input, pc, ret, flags, dp, num, type, bd, bda, i, part, running,
                   syncs, decodes, written, fault>>

\* the worker completes the unit: its blocks are in the buffer
WorkerFinish(k) ==
    /\ running /\ k \in RunningUnits
    /\ WriteUnit(tasks[k])
    /\ tasks' = [tasks EXCEPT ![k].st = "done"]
    /\ UNCHANGED <<input, pc, ret, flags, dp, num, type, i, part, running, syncs,
                   calls, decodes, written>>

\* inside Sync() with no worker threads: the calling thread runs a queued unit
SyncRun(k) ==
    /\ pc = "sync" /\ running /\ WorkerThreads(cpus) = 0
    /\ k \in PendingUnits
    /\ LET u == Started(tasks[k])
       IN  /\ WriteUnit(u)
           /\ tasks' = [tasks EXCEPT ![k] = [u EXCEPT !.st = "done"]]
           /\ calls' = calls \cup {CallOf("encode", u, Target(u).type)}
    /\ UNCHANGED <<input, pc, ret, flags, dp, num, type, i, part, running, syncs,
                   decodes, written>>

\* TaskDispatch::Sync() returns
SyncReturn ==
    /\ pc = "sync" /\ AllDone
    /\ pc' = After("sync")
    /\ syncs' = SyncsAt(pc')
    /\ UNCHANGED <<input, ret, flags, dp, num, type, bd, bda, i, part, tasks, running,
                   calls, decodes, written, fault>>

\* --------------------------------------------------------- encode: measuring
\* if( stats ) { auto out = bd->Decode(); ... }
Stats ==
    /\ pc = "stats"
    /\ decodes' = IF stats THEN decodes + 1 ELSE decodes
    /\ pc' = After("stats")
    /\ syncs' = SyncsAt(pc')
    /\ UNCHANGED <<input, ret, flags, dp, num, type, bd, bda, i, part, tasks, running,
                   calls, written, fault>>

\* return 0; the scope of taskDispatch, bd and bda ends
Exit ==
    /\ pc = "exit"
    /\ ret' = 0
    /\ running' = FALSE
    /\ pc' = "done"
    /\ UNCHANGED <<input, flags, dp, num, type, bd, bda, i, part, tasks, syncs, calls,
                   decodes, written, fault>>

\* ------------------------------------------------------------ benchmark mode
\* if( rgba ) ... else if( etc2 ) ... else if( dxt1 ) ... else Etc1
BenchType(r, e, d) ==
    IF r THEN "Etc2_RGBA" ELSE IF e THEN "Etc2_RGB" ELSE IF d THEN "Dxt1" ELSE "Etc1"

\* if( alpha ) channel = Channels::Alpha; else channel = Channels::RGB;
BenchChannel(a) == IF a THEN "Alpha" ELSE "RGB"

\* the encoded input files explored in the decode modes: one block, any format
EncodedFiles == { LoadedBuffer(<<4, 4>>, FALSE, t) : t \in Types }

\* -b -v: auto bd = make_shared<BlockData>( input )
BenchViewLoad ==
    /\ pc = "mode" /\ Mode(benchmark, viewMode) = "bench_decode"
    /\ bd' \in EncodedFiles
    /\ i' = 0
    /\ pc' = "bench_decode"
    /\ UNCHANGED <<input, ret, flags, dp, num, type, bda, part, tasks, running, syncs,
                   calls, decodes, written, fault>>

\* one timed bd->Decode()
BenchDecode ==
    /\ pc = "bench_decode" /\ i < NumTasks
    /\ decodes' = decodes + 1
    /\ i' = i + 1
    /\ UNCHANGED <<input, pc, ret, flags, dp, num, type, bd, bda, part, tasks, running,
                   syncs, calls, written, fault>>

BenchDecodeDone ==
    /\ pc = "bench_decode" /\ i >= NumTasks
    /\ pc' = "exit"
    /\ UNCHANGED <<input, ret, flags, pipe>>

\* -b: auto bmp = make_shared<Bitmap>( input, UINT_MAX, !dxt1 )
BenchLoad ==
    /\ pc = "mode" /\ Mode(benchmark, viewMode) = "bench_encode"
    /\ \E size \in ImageSizes(FALSE), srcAlpha \in BOOLEAN :
          dp' = [size |-> size, alphaCh |-> srcAlpha, mipmap |-> FALSE,
                 next |-> 0, loaded |-> TRUE]
    /\ i' = 0
    /\ pc' = "bench_encode"
    /\ UNCHANGED <<input, ret, flags, num, type, bd, bda, part, tasks, running, syncs,
                   calls, decodes, written, fault>>

\* one timed whole-image encode into a fresh buffer of bmp->Size()
BenchEncode ==
    /\ pc = "bench_encode" /\ i < NumTasks
    /\ type' = BenchType(rgba, etc2, dxt1)
    /\ LET b == NewBuffer("none", dp.size, FALSE, type')
           n == (dp.size[1] * dp.size[2]) \div 16
           ch == IF rgba THEN "RGBA" ELSE BenchChannel(alpha)
           d == IF rgba THEN FALSE ELSE dither
       IN  /\ bd' = [b EXCEPT !.data = WriteBlocks(b.data, 0, n, 0, ch, d)]
           /\ fault' = (fault \/ Overruns(b.data, n, 0))
           /\ calls' = calls \cup
                {[mode |-> "benchmark", type |-> type',
                  call |-> IF rgba THEN "ProcessRGBA" ELSE "Process",
                  channel |-> ch, dither |-> d]}
    /\ i' = i + 1
    /\ UNCHANGED <<input, pc, ret, flags, dp, num, bda, part, tasks, running, syncs,
                   decodes, written>>

BenchEncodeDone ==
    /\ pc = "bench_encode" /\ i >= NumTasks
    /\ pc' = "exit"
    /\ UNCHANGED <<input, ret, flags, pipe>>

\* ---------------------------------------------------------------- view mode
\* bd = make_shared<BlockData>( input ); out = bd->Decode(); out->Write( output )
View ==
    /\ pc = "mode" /\ Mode(benchmark, viewMode) = "view"
    /\ bd' \in EncodedFiles
    /\ decodes' = decodes + 1
    /\ written' = written \cup {"png"}
    /\ pc' = "exit"
    /\ UNCHANGED <<input, ret, flags, dp, num, type, bda, i, part, tasks, running, syncs,
                   calls, fault>>

\* ------------------------------------------------------------ specification
\* the command lines explored: any set of options, with or without a
\* rejected option, and 0 to 2 positional arguments; -o, which the switch of
\* main ignores, is explored together with the mode options -b and -v
CommandLines ==
    { a \in [opts : SUBSET OptionNames, unknown : BOOLEAN, noarg : BOOLEAN, npos : 0..2] :
         "o" \in a.opts => a.opts \subseteq {"o", "b", "v"} }

Init ==
    /\ argv \in CommandLines
    /\ cpus \in 0..MaxCpus
    /\ pc = "start"
    /\ ret = -1
    /\ viewMode = FALSE /\ stats = FALSE /\ benchmark = FALSE /\ mipmap = FALSE
    /\ dither = FALSE /\ etc2 = FALSE /\ rgba = FALSE /\ dxt1 = FALSE /\ alpha = FALSE
    /\ dp = NoData
    /\ num = 0
    /\ type = "none"
    /\ bd = NoBuffer /\ bda = NoBuffer
    /\ i = 0
    /\ part = NoPart
    /\ tasks = << >>
    /\ running = FALSE
    /\ syncs = 0
    /\ calls = {}
    /\ decodes = 0
    /\ written = {}
    /\ fault = FALSE

Main ==
    \/ ParseArgs
    \/ InputFails
    \/ LoadInput
    \/ SelectFormat
    \/ CreateBuffers
    \/ OutputFails
    \/ QueueColor
    \/ QueueAlpha
    \/ LoopExit
    \/ \E k \in 1..Len(tasks) : SyncRun(k)
    \/ SyncReturn
    \/ Stats
    \/ Exit
    \/ BenchViewLoad
    \/ BenchDecode
    \/ BenchDecodeDone
    \/ BenchLoad
    \/ BenchEncode
    \/ BenchEncodeDone
    \/ View

Workers ==
    \/ \E k \in 1..Len(tasks) : WorkerStart(k)
    \/ \E k \in 1..Len(tasks) : WorkerFinish(k)

Next == Main \/ Workers

Spec == Init /\ [][Next]_vars

\* the controlling thread and the worker threads are scheduled fairly
FairSpec == Spec /\ WF_vars(Main) /\ WF_vars(Workers)

\* ------------------------------------------------------------------ claims
\* an encode run (neither -b nor -v) that has loaded its input
EncodeRun == ~benchmark /\ ~viewMode /\ dp.loaded

\* the controlling thread is past the return of Sync()
AfterSync == pc \in {"stats", "exit", "done"}

Etc2Types == {"Etc2_RGB", "Etc2_RGBA"}

\* the units main queues in all: one per partition and buffer
UnitsExpected == num * (IF bda = NoBuffer THEN 1 ELSE 2)

\* C1: in an encode run the format tag follows the selection table for every
\* combination of etc2, rgba, dxt1 and sourceHasAlpha, the color buffer carries
\* that tag, and rgba is never set without etc2.
C1_FormatTable ==
    /\ rgba => etc2
    /\ (EncodeRun /\ type # "none") =>
          /\ (~etc2 /\ ~dxt1) => type = "Etc1"
          /\ (etc2 /\ rgba /\ dp.alphaCh) => type = "Etc2_RGBA"
          /\ (etc2 /\ rgba /\ ~dp.alphaCh) => type = "Etc2_RGB"
          /\ (etc2 /\ ~rgba) => type = "Etc2_RGB"
          /\ (dxt1 /\ ~etc2) => type = "Dxt1"
          /\ bd # NoBuffer => bd.type = type

C1_Witness ==
    /\ EncodeRun /\ bd # NoBuffer
    /\ etc2 /\ rgba /\ ~dp.alphaCh /\ bd.type = "Etc2_RGB"

\* C2: no encoding call on an ETC2_RGB or ETC2_RGBA buffer runs with dither set,
\* in the encode pipeline or in the benchmark, and the dither flag is already
\* false when such a buffer exists or a unit is queued for it, even with -d.
C2_NoDitherInEtc2 ==
    /\ \A c \in calls : c.type \in Etc2Types => ~c.dither
    /\ \A k \in 1..Len(tasks) : Target(tasks[k]).type \in Etc2Types => ~tasks[k].d
    /\ (type \in Etc2Types /\ (bd # NoBuffer \/ tasks # << >>)) => ~dither

C2_Witness ==
    /\ "d" \in argv.opts
    /\ \E c \in calls : c.type = "Etc2_RGB" /\ c.call = "Process" /\ c.mode = "encode"

\* the units queued for buffer b in loop iteration k, for partition p
UnitsFor(b, k, p) ==
    { j \in 1..Len(tasks) : tasks[j].target = b /\ tasks[j].i = k /\ tasks[j].part = p }

\* C3: every partition handed out gets exactly one unit for the color buffer and
\* exactly one more for the alpha buffer when there is one; when Sync() is called
\* NumberOfParts() units are queued without an alpha buffer, twice as many with one.
C3_OneUnitPerPartition ==
    EncodeRun =>
       LET parts == AllParts(dp.size, dp.mipmap)
       IN  /\ num = Len(parts)
           /\ \A k \in 0..(i - 1) :
                 /\ k < num
                 /\ Cardinality(UnitsFor("bd", k, parts[k + 1])) = 1
                 /\ Cardinality(UnitsFor("bda", k, parts[k + 1]))
                       = (IF bda = NoBuffer THEN 0 ELSE 1)
           /\ Len(tasks) <= UnitsExpected
           /\ syncs >= 1 =>
                 /\ i = num
                 /\ Len(tasks) = (IF bda = NoBuffer THEN Len(parts) ELSE 2 * Len(parts))

C3_Witness ==
    /\ EncodeRun /\ pc = "sync" /\ bda # NoBuffer
    /\ NumberOfParts(dp) >= 2 /\ Len(tasks) = 2 * NumberOfParts(dp)

\* C4: once the buffers are created, an alpha buffer exists exactly when -a was
\* given, the source has an alpha channel and the format is not ETC2_RGBA; it has
\* the color buffer's format tag, size and mipmap flag; with an ETC2_RGBA color
\* buffer there is no alpha buffer and no alpha unit.
C4_AlphaBuffer ==
    /\ (EncodeRun /\ bd # NoBuffer) =>
          /\ (bda # NoBuffer) <=> (alpha /\ dp.alphaCh /\ type # "Etc2_RGBA")
          /\ bda # NoBuffer =>
                /\ bda.type = bd.type /\ bda.size = bd.size /\ bda.mipmap = bd.mipmap
                /\ bda.file = "alpha"
          /\ bd.type = "Etc2_RGBA" =>
                /\ bda = NoBuffer
                /\ \A k \in 1..Len(tasks) : tasks[k].target = "bd"
    /\ bd = NoBuffer => bda = NoBuffer

C4_Witness ==
    /\ EncodeRun /\ pc = "done" /\ alpha
    /\ bd.type = "Etc2_RGBA" /\ bda = NoBuffer /\ tasks # << >>

\* the bytes of its buffer a unit writes: [lo, hi)
ByteLo(u) == u.part.offset * BytesPerBlock(Target(u).type)
ByteHi(u) == (u.part.offset + BlockCount(u.part)) * BytesPerBlock(Target(u).type)

\* C5: any two distinct units queued for the same buffer write disjoint,
\* non-empty byte ranges, whatever their state (pending, running, done); the
\* color and the alpha unit of one partition have the same offset and
\* different buffers.
C5_DisjointRanges ==
    EncodeRun =>
       \A j \in 1..Len(tasks) :
          /\ ByteLo(tasks[j]) < ByteHi(tasks[j])
          /\ \A k \in (j + 1)..Len(tasks) :
                IF tasks[j].target = tasks[k].target
                THEN /\ ByteHi(tasks[j]) <= ByteLo(tasks[k]) \/ ByteHi(tasks[k]) <= ByteLo(tasks[j])
                     /\ tasks[j].i # tasks[k].i
                ELSE tasks[j].i = tasks[k].i => tasks[j].part.offset = tasks[k].part.offset

C5_Witness ==
    /\ EncodeRun /\ bda # NoBuffer
    /\ \E j \in RunningUnits : \E k \in RunningUnits :
          j # k /\ tasks[j].target = tasks[k].target

\* every block of buffer b was written exactly once
WrittenOnce(b) == \A j \in 1..Len(b.data) : b.data[j].w = 1

C7_SyncOnce ==
    /\ syncs <= 1
    /\ EncodeRun =>
          /\ pc \in {"select", "create", "loop", "alpha"} => syncs = 0
          /\ (pc = "sync" \/ AfterSync) =>
                (syncs = 1 /\ i = num /\ Len(tasks) = UnitsExpected)
    /\ ~EncodeRun => (syncs = 0 /\ tasks = << >>)

C7_Witness ==
    /\ EncodeRun /\ pc = "stats" /\ syncs = 1 /\ Len(tasks) >= 4

\* C8: in an encode run Decode() is called only with -s, only once, only after
\* Sync() has returned, and then every queued unit, color and alpha, has
\* completed: none is pending or running while the buffer is read.
C8_DecodeAfterSync ==
    EncodeRun =>
       /\ decodes > 0 =>
             /\ stats /\ decodes = 1
             /\ syncs = 1 /\ pc # "sync"
             /\ AllDone /\ Len(tasks) = UnitsExpected
       /\ AfterSync => AllDone
       /\ (pc \in {"exit", "done"} /\ stats) => decodes = 1

C8_Witness ==
    /\ EncodeRun /\ decodes = 1 /\ WorkerThreads(cpus) >= 2
    /\ bda # NoBuffer /\ Len(tasks) >= 4

\* the units of a run in the order main queues them
RECURSIVE UnitsInOrder(_, _, _, _)
UnitsInOrder(parts, k, t, withAlpha) ==
    IF parts = << >> THEN << >>
    ELSE << ColorUnit(Head(parts), k, t) >>
         \o (IF withAlpha THEN << AlphaUnit(Head(parts), k) >> ELSE << >>)
         \o UnitsInOrder(Tail(parts), k + 1, t, withAlpha)

\* the contents of buffer b after the units ran one after the other
RECURSIVE SeqRun(_, _, _)
SeqRun(units, b, data) ==
    IF units = << >> THEN data
    ELSE LET u == Head(units)
         IN  SeqRun(Tail(units), b,
                    IF u.target = b
                    THEN WriteBlocks(data, u.part.src, BlockCount(u.part), u.part.offset,
                                     u.channel, IF u.byRef THEN dither ELSE FALSE)
                    ELSE data)

Sequential(b, buf) ==
    SeqRun(UnitsInOrder(AllParts(dp.size, dp.mipmap), 0, type, bda # NoBuffer), b,
           [j \in 1..Len(buf.data) |-> EmptyBlock])

\* C9: after Sync() the contents of the color buffer, and of the alpha buffer
\* if any, are those of running the units one after the other in queue order,
\* for every pool size and every interleaving of the workers.
C9_Deterministic ==
    (EncodeRun /\ AfterSync) =>
       /\ bd.data = Sequential("bd", bd)
       /\ bda # NoBuffer => bda.data = Sequential("bda", bda)

C9_Witness ==
    /\ EncodeRun /\ pc = "stats" /\ cpus >= 2
    /\ bda # NoBuffer /\ Len(bd.data) >= 3
    /\ \E c \in calls : c.channel = "Alpha"

\* the encode run is over: every unit ran, every block is written, status 0
Finished ==
    /\ pc = "done" /\ ret = 0
    /\ Len(tasks) = UnitsExpected /\ AllDone
    /\ WrittenOnce(bd) /\ WrittenOnce(bda)

\* C10: with fair scheduling, for every pool size from 0 on, an encode run that
\* has loaded its input and created its buffers ends with status 0 after every queued unit has run and
\* Sync() has returned; it never ends with a unit pending or running.
C10_Terminates ==
    /\ (pc = "loop") ~> Finished
    /\ []((EncodeRun /\ pc = "done") => (ret = 0 /\ AllDone))

C10_Witness ==
    /\ EncodeRun /\ Finished /\ cpus = 0 /\ Len(tasks) >= 4

\* the NextPart() calls main has made at position p with loop counter k
NextPartCalls(p, k) == IF p = "alpha" THEN k + 1 ELSE k

\* C11: in an encode run NextPart() is called once per loop iteration, never
\* on an exhausted sequence and NumberOfParts() times in all when the loop is
\* over; the units queued in iteration k hold the k-th partition NextPart()
\* returned, and units of two iterations never hold the same partition.
C11_PartitionPerIteration ==
    EncodeRun =>
       LET parts == AllParts(dp.size, dp.mipmap)
       IN  /\ dp.next = NextPartCalls(pc, i)
           /\ dp.next <= Len(parts)
           /\ (pc = "sync" \/ AfterSync) => dp.next = Len(parts)
           /\ \A j \in 1..Len(tasks) :
                 /\ tasks[j].i < dp.next
                 /\ tasks[j].part # NoPart
                 /\ tasks[j].part = parts[tasks[j].i + 1]
                 /\ \A k \in (j + 1)..Len(tasks) :
                       tasks[j].i # tasks[k].i => tasks[j].part # tasks[k].part

C11_Witness ==
    /\ EncodeRun /\ pc = "sync" /\ dp.mipmap
    /\ dp.next = NumberOfParts(dp) /\ dp.next >= 3
    /\ \E j \in 1..Len(tasks) : tasks[j].i = 2 /\ tasks[j].target = "bda"

\* --rgba was given and the source image has no alpha channel
RgbaWithoutAlpha == EncodeRun /\ rgba /\ ~dp.alphaCh

\* no block of buffer b was written
Untouched(b) == \A j \in 1..Len(b.data) : b.data[j].w = 0

\* C12 (as amended): --rgba for a source without an alpha channel is not an
\* error: it is resolved before dispatching by selecting ETC2_RGB, every unit
\* of the run then encodes RGB into the color buffer with Process and the run
\* ends with status 0.  The errors that are reported (status 1) leave no side
\* effect: no input loaded, no buffer created or written, no unit queued.
C12_RgbaFallback ==
    /\ RgbaWithoutAlpha =>
          /\ pc \in {"create", "loop", "alpha", "sync"} \cup {"stats", "exit", "done"}
                => type = "Etc2_RGB"
          /\ bd # NoBuffer => bd.type = "Etc2_RGB"
          /\ bda = NoBuffer
          /\ \A k \in 1..Len(tasks) :
                tasks[k].call = "Process" /\ tasks[k].channel = "RGB" /\ tasks[k].target = "bd"
          /\ ret \in {-1, 0}
          /\ pc = "done" => (ret = 0 /\ tasks # << >> /\ ~Untouched(bd))
    /\ ret = 1 =>
          /\ pc = "done" /\ ~dp.loaded
          /\ bd = NoBuffer /\ bda = NoBuffer
          /\ tasks = << >> /\ calls = {} /\ written = {} /\ decodes = 0

C12_Witness ==
    /\ RgbaWithoutAlpha /\ pc = "done" /\ ret = 0
    /\ bd.type = "Etc2_RGB" /\ Len(tasks) >= 2 /\ WrittenOnce(bd)

\* C12 as stated: --rgba for a source without an alpha channel is rejected
\* before dispatching: no unit is queued, no block of a buffer is written and
\* the run does not end with status 0.
C12_RgbaRejected ==
    RgbaWithoutAlpha =>
       /\ tasks = << >>
       /\ Untouched(bd) /\ Untouched(bda)
       /\ ret # 0

\* the process was aborted by a failing collaborator
Aborted == pc = "aborted"

\* C13: in an encode run the input is loaded, and the color buffer and the
\* alpha buffer if one is wanted are created on their output files, before the
\* first unit is queued and before the first partition is handed out; a run
\* aborted by an I/O failure on the input or on an output has queued no unit,
\* made no encoding call and does not return.
C13_BuffersBeforeUnits ==
    /\ (tasks # << >> \/ dp.next > 0) =>
          /\ EncodeRun
          /\ bd # NoBuffer /\ bd.file = "output" /\ "output" \in written
          /\ WantAlphaBuffer(alpha, dp.alphaCh, rgba) =>
                (bda # NoBuffer /\ bda.file = "alpha" /\ "alpha" \in written)
    /\ pc \in {"select", "create"} => (dp.loaded /\ tasks = << >> /\ dp.next = 0)
    /\ Aborted =>
          /\ tasks = << >> /\ calls = {} /\ dp.next = 0
          /\ bd = NoBuffer /\ bda = NoBuffer
          /\ ret = -1

C13_Witness ==
    /\ Aborted /\ EncodeRun /\ alpha
    /\ written = {"output"} /\ tasks = << >>

\* a benchmark compression run (-b without -v) that has loaded its bitmap
BenchRun == benchmark /\ ~viewMode /\ dp.loaded

\* C14: in benchmark compression mode the format tag of the buffer that is
\* encoded is the one the encode pipeline's selection table gives for etc2,
\* rgba, dxt1 and sourceHasAlpha, and ProcessRGBA is called exactly for
\* ETC2_RGBA; with --rgba and a source without alpha this is ETC2_RGB, Process.
C14_BenchFollowsTable ==
    BenchRun =>
       \A c \in calls :
          /\ c.mode = "benchmark"
          /\ c.type = SelectType(etc2, rgba, dxt1, dp.alphaCh)
          /\ bd.type = c.type
          /\ c.call = (IF c.type = "Etc2_RGBA" THEN "ProcessRGBA" ELSE "Process")
          /\ (etc2 /\ rgba /\ ~dp.alphaCh) => (c.type = "Etc2_RGB" /\ c.call = "Process")

\* between the first Queue call and the return of Sync()
Dispatching == EncodeRun /\ tasks # << >> /\ pc \in {"loop", "alpha", "sync"}

\* what a BlockDataPtr points to, apart from the blocks the units write
BufferId(b) == [type |-> b.type, size |-> b.size, mipmap |-> b.mipmap,
                file |-> b.file, blocks |-> Len(b.data)]

\* C15: from the first Queue call to the return of Sync() the dither flag, bd
\* and bda keep their values and the dispatcher exists: the buffers change
\* only in the blocks the units write, and not at all in a step that queues a
\* unit or moves main; the scope that owns them ends only with every unit
\* done; so every started unit ran with the dither value fixed by option
\* parsing and every encoding call went to a buffer of the selected type.
C15_CapturedStable ==
    /\ [][Dispatching =>
             /\ dither' = dither
             /\ running /\ running'
             /\ BufferId(bd') = BufferId(bd) /\ BufferId(bda') = BufferId(bda)
             /\ (pc' # pc \/ Len(tasks') # Len(tasks))
                   => (bd' = bd /\ bda' = bda)]_vars
    /\ []((EncodeRun /\ ~running /\ tasks # << >>) => (AllDone /\ pc = "done"))
    /\ [](EncodeRun =>
             /\ \A k \in 1..Len(tasks) :
                   tasks[k].st # "pending" =>
                      tasks[k].d = (IF tasks[k].byRef
                                    THEN EffectiveDither(etc2, "d" \in argv.opts)
                                    ELSE FALSE)
             /\ \A c \in calls : c.type = type /\ c.type = bd.type)

C15_Witness ==
    /\ Dispatching /\ pc = "sync" /\ dither /\ bda # NoBuffer
    /\ \E j \in RunningUnits : tasks[j].target = "bd" /\ tasks[j].d
    /\ \E k \in 1..Len(tasks) : tasks[k].st = "done" /\ tasks[k].target = "bd" /\ tasks[k].d
    /\ \E k \in PendingUnits : tasks[k].target = "bda"

\* the blocks of buffer b that some unit has written
WrittenBlocks(b) == { j \in 1..Len(b.data) : b.data[j].w > 0 }

\* C16: in an encode run every unit queued for a color buffer that is not
\* ETC2_RGBA calls Process for channel RGB with the effective dither flag, and
\* every unit queued for the alpha buffer calls Process for channel Alpha
\* with dither false, whatever -d says; no block of the color buffer holds
\* the Alpha channel and no block of the alpha buffer holds RGB.
C16_ChannelPerBuffer ==
    EncodeRun =>
       LET eff == EffectiveDither(etc2, "d" \in argv.opts)
       IN  /\ \A k \in 1..Len(tasks) :
                 LET u == tasks[k]
                 IN  /\ (u.target = "bd" /\ type # "Etc2_RGBA") =>
                           /\ u.call = "Process" /\ u.channel = "RGB"
                           /\ u.st # "pending" => u.d = eff
                     /\ u.target = "bda" =>
                           /\ u.call = "Process" /\ u.channel = "Alpha"
                           /\ ~u.d
           /\ \A j \in WrittenBlocks(bd) :
                 /\ bd.data[j].ch # "Alpha"
                 /\ type # "Etc2_RGBA" => (bd.data[j].ch = "RGB" /\ bd.data[j].dither = eff)
           /\ \A j \in WrittenBlocks(bda) :
                 bda.data[j].ch = "Alpha" /\ ~bda.data[j].dither

C16_Witness ==
    /\ EncodeRun /\ pc = "done" /\ "d" \in argv.opts /\ dither
    /\ bda # NoBuffer /\ WrittenOnce(bd) /\ WrittenOnce(bda)
    /\ \E j \in WrittenBlocks(bd) : bd.data[j].ch = "RGB" /\ bd.data[j].dither
    /\ \E j \in WrittenBlocks(bda) : bda.data[j].ch = "Alpha" /\ ~bda.data[j].dither

\* what each mode leaves behind
Queued == tasks # << >> \/ syncs > 0 \/ running
Encoded == calls # {}
OutputBound == written # {} \/ bd.file # "none" \/ bda # NoBuffer

\* C17: one branch runs per invocation, -b before -v before encode.  With -b
\* nothing is queued and no output file or output-bound buffer exists; with
\* -b -v there are only Decode() calls, NumTasks of them at the end; with -b
\* alone there are only encoding calls, one over the whole image per timed
\* run into a fresh buffer.  With -v alone the input is decoded once and
\* written, and nothing is encoded or queued.  Units, Sync(), output buffers
\* and encode-pipeline calls occur only with neither flag.
C17_OneMode ==
    /\ benchmark =>
          /\ ~Queued /\ ~OutputBound /\ num = 0
          /\ \A c \in calls : c.mode = "benchmark"
          /\ viewMode =>
                /\ ~Encoded /\ ~dp.loaded
                /\ decodes <= NumTasks
                /\ (pc = "done" /\ ret = 0) => decodes = NumTasks
          /\ ~viewMode =>
                /\ decodes = 0
                /\ Encoded <=> (dp.loaded /\ i > 0)
                /\ Encoded =>
                      /\ Len(bd.data) = (dp.size[1] * dp.size[2]) \div 16
                      /\ WrittenOnce(bd)
                /\ (pc = "done" /\ ret = 0) => (Encoded /\ i = NumTasks)
    /\ (~benchmark /\ viewMode) =>
          /\ ~Queued /\ ~Encoded /\ ~dp.loaded /\ bda = NoBuffer
          /\ written \subseteq {"png"}
          /\ (pc = "done" /\ ret = 0) => (decodes = 1 /\ written = {"png"} /\ bd \in EncodedFiles)
    /\ (Queued \/ dp.next > 0 \/ written \cap {"output", "alpha"} # {}
          \/ \E c \in calls : c.mode = "encode") =>
          /\ ~benchmark /\ ~viewMode
          /\ "png" \notin written
          /\ \A c \in calls : c.mode = "encode"

C17_Witness ==
    /\ benchmark /\ viewMode /\ "s" \in argv.opts /\ "a" \in argv.opts
    /\ pc = "done" /\ ret = 0 /\ decodes = NumTasks /\ bd \in EncodedFiles

\* nothing was loaded, created, queued, encoded, decoded or written
NothingDone ==
    /\ ~dp.loaded /\ bd = NoBuffer /\ bda = NoBuffer
    /\ tasks = << >> /\ ~running /\ syncs = 0
    /\ calls = {} /\ decodes = 0 /\ written = {}

\* the positional arguments the mode chosen on the command line requires
Required(a) == IF "b" \in a.opts THEN 1 ELSE 2

\* C18 (as amended): if fewer than 3 arguments are given, an option is unknown
\* or lacks its argument, or fewer positional arguments remain than the mode
\* requires (1 with -b, 2 otherwise), main returns 1 before loading an input,
\* creating a buffer or queueing a unit; in every other case main returns
\* only 0.
C18_UsageOrZero ==
    LET usage == \/ Argc(argv) < 3
                 \/ argv.unknown \/ argv.noarg
                 \/ argv.npos < Required(argv)
    IN  /\ ret \in {-1, 0, 1}
        /\ (pc = "done") <=> (ret # -1)
        /\ (usage /\ pc # "start") => (pc = "done" /\ ret = 1 /\ NothingDone)
        /\ ret = 1 => (usage /\ NothingDone)
        /\ (~usage /\ pc = "done") => ret = 0

C18_Witness ==
    /\ pc = "done" /\ ret = 1 /\ NothingDone
    /\ ~argv.unknown /\ ~argv.noarg /\ Argc(argv) >= 3
    /\ "b" \notin argv.opts /\ argv.npos = 1

\* C18 as stated: status 1 is returned exactly for fewer than 3 arguments, an
\* unknown option or too few positional arguments; every other run that
\* returns has status 0.
C18_UsageAsStated ==
    LET usage == \/ Argc(argv) < 3
                 \/ argv.unknown
                 \/ argv.npos < Required(argv)
    IN  /\ (usage /\ pc # "start") => (pc = "done" /\ ret = 1 /\ NothingDone)
        /\ (~usage /\ pc = "done") => ret = 0

====
